---- MODULE Spec2Model ----
(***************************************************************************)
(* Code Tracker API: a single-table snapshot service (FastAPI + SQLAlchemy). *)
(* The store is the tracked_files table; every HTTP request runs in a        *)
(* worker with its own session.  Time is counted in whole seconds.           *)
(***************************************************************************)
EXTENDS Integers, Sequences, FiniteSets, TLC

VARIABLES
    rows,      \* committed rows of table tracked_files
    nextId,    \* the table's AUTO_INCREMENT counter
    clock,     \* wall clock read by datetime.utcnow
    req,       \* per worker: the request in flight, its locals and its response
    startup,   \* on_startup: where the schema initialization stands
    call       \* a text, and what compress_content made of it

vars == <<rows, nextId, clock, req, startup, call>>

----------------------------------------------------------------------------
(* Bounds of the model *)

MaxRows == 2        \* rows the table may hold
MaxTs == 6          \* client timestamps are instants 0..MaxTs
MaxClock == 1       \* wall-clock ticks
MaxLen == 3         \* length of the texts compress_content is called on

(* Program constants *)

\* variant: a window of 3 seconds
WindowSecondsShort == 5 - 2
WindowSeconds == 5  \* timedelta(seconds=5)

\* variant: one attempt more
MaxAttemptsEleven == 10 + 1
max_attempts == 10
delay_seconds == 3

HTTP_200_OK == 200
HTTP_201_CREATED == 201
HTTP_401_UNAUTHORIZED == 401
HTTP_500_INTERNAL_SERVER_ERROR == 500

----------------------------------------------------------------------------
(* Inputs *)

Whitespace == {" ", "\t", "\n"}

FileA == [fileName |-> "a.py", filePath |-> "/tmp/a.py"]
FileB == [fileName |-> "b.py", filePath |-> "/tmp/a.py"]
FileC == [fileName |-> "a.py", filePath |-> "/src/a.py"]
Files == {FileA, FileB, FileC}

RawXY == <<"x", " ", " ", "y", "\n">>
RawXY2 == <<" ", "x", "\t", "y">>
RawZ == <<"z">>
RawXYZ == <<"x", " ", " ", " ", "y", "\n", "\n", "z">>
RawContents == {RawXY, RawXY2, RawZ, RawXYZ}

\* every text of at most n characters over two letters and the whitespace
RECURSIVE TextsUpTo(_)
TextsUpTo(n) ==
    IF n = 0 THEN {<<>>}
    ELSE LET shorter == TextsUpTo(n - 1)
         IN  shorter \cup {Append(t, c) : t \in shorter,
                                          c \in {"x", "y"} \cup Whitespace}
RawTexts == TextsUpTo(MaxLen) \cup RawContents

\* a datetime: wall-clock reading `local` and, when aware, its UTC offset in
\* seconds (utcoffset = <<>> for a naive datetime)
UtcOffsets == {7200}
Naive(t) == [local |-> t, utcoffset |-> <<>>]
Aware(t, o) == [local |-> t + o, utcoffset |-> <<o>>]
Timestamps == {Naive(t) : t \in 0..MaxTs}
              \cup {Aware(t, o) : t \in 0..MaxTs, o \in UtcOffsets}

\* the x-api-key header: absent (<<>>) or one value
Headers == {<<>>, <<"">>, <<"K1">>, <<"K2">>}

Payloads(F, C, T) ==
    {[fileName |-> f.fileName, filePath |-> f.filePath,
      fullContent |-> c, timestamp |-> t] : f \in F, c \in C, t \in T}

----------------------------------------------------------------------------
(* Pure functions of main.py *)

RECURSIVE LStrip(_)
LStrip(s) ==
    IF s # <<>> /\ Head(s) \in Whitespace THEN LStrip(Tail(s)) ELSE s

RECURSIVE RStrip(_)
RStrip(s) ==
    IF s # <<>> /\ s[Len(s)] \in Whitespace
    THEN RStrip(SubSeq(s, 1, Len(s) - 1))
    ELSE s

\* variant: every whitespace character is replaced, not every run
SubEachWhitespace(s) ==
    [i \in 1..Len(s) |-> IF s[i] \in Whitespace THEN " " ELSE s[i]]

\* re.sub(r"\s+", " ", raw)
RECURSIVE SubWhitespaceRuns(_)
SubWhitespaceRuns(s) ==
    IF s = <<>> THEN <<>>
    ELSE IF Head(s) \in Whitespace
         THEN <<" ">> \o SubWhitespaceRuns(LStrip(s))
         ELSE <<Head(s)>> \o SubWhitespaceRuns(Tail(s))

\* variant: whitespace runs are replaced, the ends are not stripped
CompressContentUnstripped(raw) == SubWhitespaceRuns(raw)

\* re.sub(r"\s+", " ", raw).strip()
compress_content(raw) == RStrip(LStrip(SubWhitespaceRuns(raw)))

\* variant: the datetime is passed on as it came
NormalizeTimestampKeepsOffset(dt) == dt

\* dt when naive, else dt.astimezone(timezone.utc).replace(tzinfo=None)
normalize_timestamp(dt) ==
    IF dt.utcoffset = <<>> THEN dt ELSE Naive(dt.local - dt.utcoffset[1])

\* what a DateTime column or comparison takes of a datetime: its wall-clock
\* reading
ColumnValue(dt) == dt.local

\* variant: only the empty header value is refused
RequireApiKeyRejectsOnlyEmpty(x_api_key) ==
    x_api_key = <<>> \/ x_api_key[1] # ""

\* require_api_key: TRUE when the header passes (`if not x_api_key` is false)
require_api_key(x_api_key) == x_api_key # <<>> /\ x_api_key[1] # ""

\* the value bound to api_key (None, written "", when the header is absent)
HeaderValue(x_api_key) == IF x_api_key = <<>> THEN "" ELSE x_api_key[1]

----------------------------------------------------------------------------
(* Store and schema *)

\* variant: file name and path stored in each other's column
TrackedFileSwapped(id, fileName, filePath, key, fullContent, timestamp, created_at) ==
    [id |-> id, fileName |-> filePath, filePath |-> fileName, key |-> key,
     fullContent |-> fullContent, timestamp |-> timestamp,
     created_at |-> created_at]

\* a row of tracked_files
TrackedFile(id, fileName, filePath, key, fullContent, timestamp, created_at) ==
    [id |-> id, fileName |-> fileName, filePath |-> filePath, key |-> key,
     fullContent |-> fullContent, timestamp |-> timestamp,
     created_at |-> created_at]

\* the response schema: every column but `key`
FileResponse(row) ==
    [id |-> row.id, fileName |-> row.fileName, filePath |-> row.filePath,
     fullContent |-> row.fullContent, timestamp |-> row.timestamp,
     created_at |-> row.created_at]

\* variant: a window that is open at both ends
BetweenExclusive(x, lo, hi) == lo < x /\ x < hi

\* TrackedFile.timestamp.between(window_start, window_end)
Between(x, lo, hi) == lo <= x /\ x <= hi

\* variant: a window that reaches back only
DuplicateFilterBackward(table, fileName, filePath, normalized_ts) ==
    {r \in table :
        /\ r.fileName = fileName
        /\ r.filePath = filePath
        /\ Between(r.timestamp, normalized_ts - WindowSeconds, normalized_ts)}

\* the filter of the duplicate lookup
DuplicateFilter(table, fileName, filePath, normalized_ts) ==
    {r \in table :
        /\ r.fileName = fileName
        /\ r.filePath = filePath
        /\ Between(r.timestamp, normalized_ts - WindowSeconds,
                   normalized_ts + WindowSeconds)}

\* variant: the lookup is confined to the caller's key
ExistingQueryOfKey(table, api_key, fileName, filePath, normalized_ts) ==
    {r \in DuplicateFilter(table, fileName, filePath, normalized_ts) :
        r.key = api_key}

\* db.query(TrackedFile).filter(...) of create_tracked_file: api_key is in
\* scope and the filter does not use it
existing_query(table, api_key, fileName, filePath, normalized_ts) ==
    DuplicateFilter(table, fileName, filePath, normalized_ts)

\* variant: the oldest match first
FirstByTimestampAsc(matches) ==
    {r \in matches : \A m \in matches : m.timestamp >= r.timestamp}

\* .order_by(TrackedFile.timestamp.desc()).first(): the rows the store may
\* return first (rows of equal timestamp come in an unspecified order)
FirstByTimestampDesc(matches) ==
    {r \in matches : \A m \in matches : m.timestamp <= r.timestamp}

IsPermutation(seq, S) ==
    /\ Len(seq) = Cardinality(S)
    /\ {seq[i] : i \in 1..Len(seq)} = S

\* .filter(TrackedFile.key == api_key).order_by(created_at.desc()).all():
\* the result lists the store may return
OrderByCreatedAtDesc(matches) ==
    {seq \in [1..Cardinality(matches) -> matches] :
        /\ IsPermutation(seq, matches)
        /\ \A i, j \in 1..Len(seq) :
              i < j => seq[i].created_at >= seq[j].created_at}

KeyFilter(table, api_key) == {r \in table : r.key = api_key}

\* variant: a data-layer constraint on (file, window)
InsertUnlessInWindow(table, row) ==
    IF \E r \in table :
          /\ r.fileName = row.fileName
          /\ r.filePath = row.filePath
          /\ Between(r.timestamp, row.timestamp - WindowSeconds,
                     row.timestamp + WindowSeconds)
    THEN table
    ELSE table \cup {row}

\* INSERT: nothing at the data layer constrains the new row but its primary key
Insert(table, row) == table \cup {row}

\* variant: a counter that does not advance
AutoIncrementStuck(n) == n

\* the AUTO_INCREMENT counter after an insert
AutoIncrement(n) == n + 1

\* db.rollback(): discards what the session has not committed; committed rows
\* stay
Rollback(table) == table

----------------------------------------------------------------------------
(* Requests *)

NoResponse == [status |-> 0, message |-> "", cause |-> "", data |-> <<>>]

Idle(session) ==
    [pc |-> "idle", op |-> "none", session |-> session, db |-> 0,
     x_api_key |-> <<>>,
     payload |-> {}, fileName |-> "", filePath |-> "",
     compressed_content |-> <<>>,
     normalized_ts |-> 0, existing |-> {}, tracked_file |-> {},
     response |-> NoResponse]

Response(status, message, data) ==
    [status |-> status, message |-> message, cause |-> "", data |-> data]

\* str(exc) of the exception a failing store call raises
StoreFault == "OperationalError"

\* HTTPException(500, detail=f"Failed to save file: {exc}")
FailedToSaveFile(exc) ==
    [Response(HTTP_500_INTERNAL_SERVER_ERROR, "Failed to save file", <<>>)
        EXCEPT !.cause = exc]

\* variant: the answer carries the request's content
AlreadyStoredEchoesRequest(locals, existing) ==
    [locals EXCEPT !.pc = "teardown",
                   !.existing = {existing},
                   !.response =
                      Response(HTTP_200_OK, "File snapshot already stored",
                               <<[FileResponse(existing) EXCEPT
                                    !.fullContent = locals.compressed_content]>>)]

\* the 200 answer of create_tracked_file: the stored snapshot, serialized
AlreadyStored(locals, existing) ==
    [locals EXCEPT !.pc = "teardown",
                   !.existing = {existing},
                   !.response = Response(HTTP_200_OK,
                                         "File snapshot already stored",
                                         <<FileResponse(existing)>>)]

Workers == {1, 2}

\* on_startup at its first attempt
Starting == [phase |-> "create_all", attempt |-> 1, slept |-> 0]

\* on_startup has returned: the application serves requests
Running == [phase |-> "running", attempt |-> 0, slept |-> 0]

NoCall == [pc |-> "none", raw |-> <<>>, once |-> <<>>, twice |-> <<>>]

Init ==
    /\ rows = {}
    /\ nextId = 1
    /\ clock = 0
    /\ req = [w \in Workers |-> Idle("none")]
    /\ startup = Starting
    /\ call = NoCall

\* rows that requests past their duplicate lookup are about to insert
PendingInserts == Cardinality({w \in Workers : req[w].pc = "commit"})

----------------------------------------------------------------------------
(* Steps of a request.  `fault` says whether the store operation of the step
   raises (store unreachable, query failure). *)

\* the sessions the requests in flight hold
SessionsInUse == {req[w].db : w \in Workers} \ {0}

\* SessionLocal(): a new session object, none of those in use
SessionLocal(inUse) == CHOOSE db \in 1..(Cardinality(inUse) + 1) : db \notin inUse

\* variant: the session is left as it is
DbCloseLeaks(session) == session

\* db.close()
db_close(session) == IF session = "open" THEN "closed" ELSE session

\* POST/GET /api/v1/files arrives: get_db opens a session, then
\* require_api_key reads the header; the handler runs only if both pass
Receive(w, op, x_api_key) ==
    /\ startup.phase = "running"
    /\ req[w].pc = "idle"
    /\ op \in {"create", "list"}
    /\ IF require_api_key(x_api_key)
       THEN req' = [req EXCEPT ![w] =
                [Idle("open") EXCEPT !.pc = IF op = "create" THEN "query"
                                            ELSE "list",
                                     !.op = op,
                                     !.db = SessionLocal(SessionsInUse),
                                     !.x_api_key = x_api_key]]
       ELSE req' = [req EXCEPT ![w] =
                [Idle("open") EXCEPT !.pc = "teardown",
                                     !.op = op,
                                     !.db = SessionLocal(SessionsInUse),
                                     !.x_api_key = x_api_key,
                                     !.response =
                                        Response(HTTP_401_UNAUTHORIZED,
                                                 "Missing x-api-key header",
                                                 <<>>)]]
    /\ UNCHANGED <<rows, nextId, clock, startup, call>>

\* create_tracked_file up to the duplicate check: normalize, look for a stored
\* snapshot in the window, answer 200 with it when there is one
create_tracked_file_query(w, payload, fault) ==
    LET compressed_content == compress_content(payload.fullContent)
        normalized_ts == ColumnValue(normalize_timestamp(payload.timestamp))
        matches == existing_query(rows, HeaderValue(req[w].x_api_key),
                                  payload.fileName, payload.filePath,
                                  normalized_ts)
        locals == [req[w] EXCEPT !.payload = {payload},
                                 !.fileName = payload.fileName,
                                 !.filePath = payload.filePath,
                                 !.compressed_content = compressed_content,
                                 !.normalized_ts = normalized_ts]
    IN  /\ req[w].pc = "query"
        /\ \/ /\ fault
              /\ rows' = Rollback(rows)
              /\ req' = [req EXCEPT ![w].pc = "teardown",
                                    ![w].response =
                                       FailedToSaveFile(StoreFault)]
           \/ /\ ~fault
              /\ matches # {}
              /\ \E existing \in FirstByTimestampDesc(matches) :
                    req' = [req EXCEPT ![w] = AlreadyStored(locals, existing)]
              /\ rows' = rows
           \/ /\ ~fault
              /\ matches = {}
              /\ Cardinality(rows) + PendingInserts < MaxRows
              /\ req' = [req EXCEPT ![w] = [locals EXCEPT !.pc = "commit"]]
              /\ rows' = rows
        /\ UNCHANGED <<nextId, clock, startup, call>>

\* db.add(tracked_file); db.commit()
create_tracked_file_commit(w, fault) ==
    LET tracked_file ==
            TrackedFile(nextId, req[w].fileName, req[w].filePath,
                        HeaderValue(req[w].x_api_key),
                        req[w].compressed_content,
                        req[w].normalized_ts, clock)
    IN  /\ req[w].pc = "commit"
        /\ \/ /\ fault
              /\ rows' = Rollback(rows)
              /\ nextId' = nextId
              /\ req' = [req EXCEPT ![w].pc = "teardown",
                                    ![w].response =
                                       FailedToSaveFile(StoreFault)]
           \/ /\ ~fault
              /\ rows' = Insert(rows, tracked_file)
              /\ nextId' = AutoIncrement(nextId)
              /\ req' = [req EXCEPT ![w].pc = "refresh",
                                    ![w].tracked_file = {tracked_file}]
        /\ UNCHANGED <<clock, startup, call>>

\* db.refresh(tracked_file) and the 201 answer
create_tracked_file_refresh(w, fault) ==
    /\ req[w].pc = "refresh"
    /\ \/ /\ fault
          /\ rows' = Rollback(rows)
          /\ req' = [req EXCEPT ![w].pc = "teardown",
                                ![w].response =
                                   FailedToSaveFile(StoreFault)]
       \/ /\ ~fault
          /\ \E t \in req[w].tracked_file :
             \E refreshed \in {r \in rows : r.id = t.id} :
                req' = [req EXCEPT ![w].pc = "teardown",
                                   ![w].tracked_file = {refreshed},
                                   ![w].response =
                                      Response(HTTP_201_CREATED,
                                               "File snapshot created",
                                               <<FileResponse(refreshed)>>)]
          /\ rows' = rows
    /\ UNCHANGED <<nextId, clock, startup, call>>

\* list_tracked_files: no try/except, a store fault escapes to the framework
list_tracked_files(w, fault) ==
    /\ req[w].pc = "list"
    /\ \/ /\ fault
          /\ req' = [req EXCEPT ![w].pc = "teardown",
                                ![w].response =
                                   Response(HTTP_500_INTERNAL_SERVER_ERROR,
                                            "Internal Server Error", <<>>)]
       \/ /\ ~fault
          /\ \E result \in OrderByCreatedAtDesc(KeyFilter(rows,
                                       HeaderValue(req[w].x_api_key))) :
                req' = [req EXCEPT ![w].pc = "teardown",
                                   ![w].response =
                                      Response(HTTP_200_OK,
                                               "file snapshots found",
                                               [i \in 1..Len(result) |->
                                                   FileResponse(result[i])])]
    /\ UNCHANGED <<rows, nextId, clock, startup, call>>

\* GET /api/v1/health: no dependency, no store access
health(w) ==
    /\ startup.phase = "running"
    /\ req[w].pc = "idle"
    /\ req' = [req EXCEPT ![w] =
            [Idle(req[w].session) EXCEPT !.pc = "teardown",
                                         !.op = "health",
                                         !.response =
                                            Response(HTTP_200_OK, "ok",
                                                     <<clock>>)]]
    /\ UNCHANGED <<rows, nextId, clock, startup, call>>

\* the response leaves and get_db's finally closes the session it opened
get_db_close(w) ==
    /\ req[w].pc = "teardown"
    /\ req' = [req EXCEPT ![w] =
            Idle(db_close(req[w].session))]
    /\ UNCHANGED <<rows, nextId, clock, startup, call>>

\* on_startup, one attempt: Base.metadata.create_all succeeds, raises
\* OperationalError (store not ready) or raises something else
on_startup_create_all(outcome) ==
    /\ startup.phase = "create_all"
    /\ outcome \in {"ok", "OperationalError", "other"}
    /\ startup' =
          IF outcome = "ok"
          THEN [startup EXCEPT !.phase = "created"]
          ELSE IF outcome = "OperationalError" /\ startup.attempt # max_attempts
          THEN [startup EXCEPT !.phase = "sleep"]
          ELSE [startup EXCEPT !.phase = "aborted"]
    /\ UNCHANGED <<rows, nextId, clock, req, call>>

\* on_startup: time.sleep(delay_seconds), then the next attempt
on_startup_sleep ==
    /\ startup.phase = "sleep"
    /\ startup' = [startup EXCEPT !.phase = "create_all",
                                  !.attempt = startup.attempt + 1,
                                  !.slept = startup.slept + delay_seconds]
    /\ UNCHANGED <<rows, nextId, clock, req, call>>

\* on_startup: break, and the function returns
on_startup_return ==
    /\ startup.phase = "created"
    /\ startup' = Running
    /\ UNCHANGED <<rows, nextId, clock, req, call>>

\* compress_content(raw), called on a text
compress_content_call ==
    /\ call.pc = "raw"
    /\ call' = [call EXCEPT !.pc = "once",
                            !.once = compress_content(call.raw)]
    /\ UNCHANGED <<rows, nextId, clock, req, startup>>

\* compress_content called on its own result
compress_content_again ==
    /\ call.pc = "once"
    /\ call' = [call EXCEPT !.pc = "twice",
                            !.twice = compress_content(call.once)]
    /\ UNCHANGED <<rows, nextId, clock, req, startup>>

\* time passes
Tick ==
    /\ clock < MaxClock
    /\ clock' = clock + 1
    /\ UNCHANGED <<rows, nextId, req, startup, call>>

----------------------------------------------------------------------------
(* Specifications *)

\* the requests of workers W, with bodies P and x-api-key headers H
NextOver(W, P, H) ==
    \/ \E outcome \in {"ok", "OperationalError", "other"} :
          on_startup_create_all(outcome)
    \/ on_startup_sleep
    \/ on_startup_return
    \/ \E w \in W, op \in {"create", "list"}, h \in H : Receive(w, op, h)
    \/ \E w \in W, p \in P, fault \in BOOLEAN :
          create_tracked_file_query(w, p, fault)
    \/ \E w \in W, fault \in BOOLEAN : create_tracked_file_commit(w, fault)
    \/ \E w \in W, fault \in BOOLEAN : create_tracked_file_refresh(w, fault)
    \/ \E w \in W, fault \in BOOLEAN : list_tracked_files(w, fault)
    \/ \E w \in W : health(w)
    \/ \E w \in W : get_db_close(w)

\* one request at a time, one key: the files and instants of the dedup window
Next == NextOver({1}, Payloads(Files, {RawXY}, Timestamps),
                 {<<>>, <<"">>, <<"K1">>})

Spec == Init /\ [][Next]_vars

\* one request at a time, one file: contents
ContentNext ==
    NextOver({1}, Payloads({FileA}, RawContents, {Naive(t) : t \in 0..MaxTs}),
             {<<>>, <<"K1">>})

ContentSpec == Init /\ [][ContentNext]_vars

\* one request at a time, two keys, a ticking clock: listings
ListNext ==
    \/ NextOver({1}, Payloads({FileA, FileB}, {RawZ, RawXY},
                              {Naive(0), Naive(4), Naive(MaxTs)}),
                {<<>>, <<"K1">>, <<"K2">>})
    \/ Tick

ListSpec == Init /\ [][ListNext]_vars

\* two requests at a time on one file
RaceNext ==
    \/ NextOver(Workers, Payloads({FileA}, {RawZ},
                                  {Naive(0), Naive(3), Naive(MaxTs)}),
                {<<>>, <<"K1">>})
    \/ Tick

RaceSpec == Init /\ [][RaceNext]_vars

\* one worker, calls one after the other, timestamps 4 to 8 seconds apart
SeqTimestamps == {Naive(0), Naive(4), Naive(MaxTs), Naive(4 + 4)}
SeqNext == NextOver({1}, Payloads({FileA, FileB}, {RawZ}, SeqTimestamps),
                    {<<"K1">>})
SeqSpec == Init /\ [][SeqNext]_vars

\* on_startup runs to its end: create_all returns or raises, sleep returns
on_startup ==
    \/ \E outcome \in {"ok", "OperationalError", "other"} :
          on_startup_create_all(outcome)
    \/ on_startup_sleep
    \/ on_startup_return
StartupNext == NextOver({1}, Payloads({FileA, FileB}, {RawZ},
                                      {Naive(0), Naive(MaxTs)}),
                        {<<>>, <<"K1">>})
StartupSpec == Init /\ [][StartupNext]_vars /\ WF_vars(on_startup)

\* two workers, one file, timestamps that carry different UTC offsets
TzTimestamps == {Aware(0, 3600), Aware(5, 0 - 18000), Naive(MaxTs)}
TzNext == NextOver(Workers, Payloads({FileA}, {RawZ}, TzTimestamps),
                   {<<"K1">>})
TzSpec == Init /\ [][TzNext]_vars

\* compress_content alone, over every short text
PureInit ==
    /\ rows = {}
    /\ nextId = 1
    /\ clock = 0
    /\ req = [w \in Workers |-> Idle("none")]
    /\ startup = Starting
    /\ call \in {[NoCall EXCEPT !.pc = "raw", !.raw = s] : s \in RawTexts}
PureNext == compress_content_call \/ compress_content_again
PureSpec == PureInit /\ [][PureNext]_vars

----------------------------------------------------------------------------
(* Vocabulary of the properties *)

\* worker w has its answer and has not yet been torn down
Answered(w, op, status) ==
    /\ req[w].pc = "teardown"
    /\ req[w].op = op
    /\ req[w].response.status = status

\* the step in which worker w runs the duplicate lookup of its create request
QueryStep(w) == req[w].pc = "query" /\ req'[w].pc # "query"

\* the step in which worker w runs db.add and db.commit
CommitStep(w) == req[w].pc = "commit" /\ req'[w].pc # "commit"

\* the step in which worker w runs db.refresh and answers
RefreshStep(w) == req[w].pc = "refresh" /\ req'[w].pc # "refresh"

\* the step meets no store fault
NoFault(w) == req'[w].response.status # 500

\* the rows of `table` with the file name and path of request q and a
\* timestamp at most 5 seconds from q's normalized timestamp
InWindow(table, q) ==
    {r \in table :
        /\ r.fileName = q.fileName
        /\ r.filePath = q.filePath
        /\ r.timestamp - q.normalized_ts <= 5
        /\ q.normalized_ts - r.timestamp <= 5}

----------------------------------------------------------------------------
(* C1: a create whose normalized timestamp is within 5 seconds of a stored
   snapshot of the same fileName and filePath, and that meets no store fault,
   is answered 200 "File snapshot already stored" with one of those stored
   snapshots, and writes nothing: the lookup step leaves the table and the
   id counter as they were, and so does the rest of the request. *)
C1_DuplicateSuppressed ==
    [][\A w \in Workers :
        /\ (QueryStep(w) /\ NoFault(w) /\ InWindow(rows, req'[w]) # {})
             => /\ req'[w].pc = "teardown"
                /\ req'[w].response.status = 200
                /\ req'[w].response.message = "File snapshot already stored"
                /\ \E r \in InWindow(rows, req'[w]) :
                      /\ req'[w].response.data = <<FileResponse(r)>>
                      /\ req'[w].response.data[1].id = r.id
                /\ rows' = rows
                /\ nextId' = nextId
        /\ Answered(w, "create", 200) => rows' = rows /\ nextId' = nextId
      ]_vars

\* a second create 4 seconds after the first was answered 200 with the first
\* snapshot and the table holds one row
C1_Witness ==
    \E w \in Workers :
        /\ Answered(w, "create", 200)
        /\ Cardinality(rows) = 1
        /\ \E r \in rows :
              /\ req[w].response.data = <<FileResponse(r)>>
              /\ req[w].normalized_ts - r.timestamp = 4

(* C2: a create with no stored snapshot of the same fileName and filePath in
   [ts-5, ts+5], and that meets no store fault, inserts exactly one row, with
   an id no stored row has, the caller's key, the compressed content and the
   normalized timestamp, leaves the rows stored before as they were, and is
   answered 201 "File snapshot created" with that row. *)
C2_InsertWhenNoDuplicate ==
    [][\A w \in Workers :
        /\ (QueryStep(w) /\ NoFault(w) /\ InWindow(rows, req'[w]) = {})
             => req'[w].pc = "commit" /\ rows' = rows
        /\ (CommitStep(w) /\ NoFault(w))
             => /\ req'[w].pc = "refresh"
                /\ \E new \in rows' :
                      /\ new \notin rows
                      /\ rows' = rows \cup {new}
                      /\ \A r \in rows : r.id # new.id
                      /\ new.fileName = req[w].fileName
                      /\ new.filePath = req[w].filePath
                      /\ <<new.key>> = req[w].x_api_key
                      /\ new.fullContent = req[w].compressed_content
                      /\ new.timestamp = req[w].normalized_ts
                      /\ req'[w].tracked_file = {new}
        /\ (RefreshStep(w) /\ NoFault(w))
             => /\ req'[w].pc = "teardown"
                /\ req'[w].response.status = 201
                /\ req'[w].response.message = "File snapshot created"
                /\ \E r \in req[w].tracked_file :
                      /\ r \in rows
                      /\ req'[w].response.data = <<FileResponse(r)>>
                /\ rows' = rows
      ]_vars

\* two creates for one file 6 seconds apart: two rows, the second answered 201
C2_Witness ==
    \E w \in Workers :
        /\ Answered(w, "create", 201)
        /\ Cardinality(rows) = 2
        /\ \E r1, r2 \in rows :
              /\ r1.id # r2.id
              /\ r1.fileName = r2.fileName /\ r1.filePath = r2.filePath
              /\ r2.timestamp - r1.timestamp = 6
              /\ req[w].response.data = <<FileResponse(r2)>>

(* C3: the window is inclusive on both ends and exact on the file: a create
   that meets no store fault is answered 200 exactly when some stored row has
   the same fileName, the same filePath and a timestamp t with
   ts-5 <= t <= ts+5 (t = ts-5 and t = ts+5 included); the row it is answered
   with is such a row. *)
C3_WindowInclusive ==
    [][\A w \in Workers :
        (QueryStep(w) /\ NoFault(w))
          => LET q == req'[w]
                 same == {r \in rows : r.fileName = q.fileName
                                         /\ r.filePath = q.filePath}
             IN  /\ (\E r \in same : r.timestamp = q.normalized_ts - 5)
                       => q.response.status = 200
                 /\ (\E r \in same : r.timestamp = q.normalized_ts + 5)
                       => q.response.status = 200
                 /\ q.response.status = 200
                       <=> \E r \in same :
                              /\ q.normalized_ts - 5 <= r.timestamp
                              /\ r.timestamp <= q.normalized_ts + 5
                 /\ q.response.status = 200
                       => \E r \in same :
                             /\ q.response.data = <<FileResponse(r)>>
                             /\ q.normalized_ts - 5 <= r.timestamp
                             /\ r.timestamp <= q.normalized_ts + 5
      ]_vars

\* answered 200 with a row stored exactly 5 seconds after the candidate, while
\* a row of another file name lies in the window too
C3_Witness ==
    \E w \in Workers :
        /\ Answered(w, "create", 200)
        /\ \E r \in rows :
              /\ req[w].response.data = <<FileResponse(r)>>
              /\ r.timestamp = req[w].normalized_ts + 5
        /\ \E r \in rows :
              /\ r.fileName # req[w].fileName
              /\ r.filePath = req[w].filePath
              /\ r.timestamp = req[w].normalized_ts

(* C4: duplicate detection does not look at the content: a create in the
   window of a stored snapshot of the same file whose content differs from
   the request's compressed content is still answered 200, the table is left
   as it was (the new content is stored nowhere), and the answer carries a
   stored snapshot with its stored content. *)
C4_ContentBlind ==
    [][\A w \in Workers :
        (/\ QueryStep(w)
         /\ NoFault(w)
         /\ \E r \in InWindow(rows, req'[w]) :
               r.fullContent # req'[w].compressed_content)
          => /\ req'[w].response.status = 200
             /\ rows' = rows
             /\ \E r \in InWindow(rows', req'[w]) :
                   /\ req'[w].response.data = <<FileResponse(r)>>
                   /\ req'[w].response.data[1].fullContent = r.fullContent
      ]_vars

\* answered 200 with a stored content that is not the request's, and no row
\* holds the request's content
C4_Witness ==
    \E w \in Workers :
        /\ Answered(w, "create", 200)
        /\ req[w].response.data[1].fullContent # req[w].compressed_content
        /\ \A r \in rows : r.fullContent # req[w].compressed_content

(* C5: the snapshot a duplicate answer returns has the greatest timestamp
   among the stored snapshots of the same file in the candidate's window. *)
C5_LatestMatch ==
    [][\A w \in Workers :
        (QueryStep(w) /\ req'[w].response.status = 200)
          => \A r \in InWindow(rows, req'[w]) :
                r.timestamp <= req'[w].response.data[1].timestamp
      ]_vars

\* answered 200 while two stored snapshots of the file are in the window
C5_Witness ==
    \E w \in Workers :
        /\ Answered(w, "create", 200)
        /\ Cardinality(InWindow(rows, req[w])) = 2

(* C6: a listing answered 200 holds exactly the stored snapshots of the
   caller's key, the most recently inserted first (ids descending: the store
   hands out ids in insertion order), and is empty when the key has none. *)
C6_ListNewestFirst ==
    \A w \in Workers :
        Answered(w, "list", 200)
          => LET data == req[w].response.data
                 mine == {r \in rows : <<r.key>> = req[w].x_api_key}
             IN  /\ Len(data) = Cardinality(mine)
                 /\ {data[i] : i \in 1..Len(data)}
                       = {FileResponse(r) : r \in mine}
                 /\ \A i, j \in 1..Len(data) : i < j => data[i].id > data[j].id

(* C7: a create or list request without the x-api-key header is answered 401
   in the step that receives it and goes straight to teardown: it runs no
   duplicate lookup, no insert and no list query, and the table and the id
   counter stay as they were until it is gone. *)
C7_MissingKeyUnauthorized ==
    [][\A w \in Workers :
        /\ (/\ req[w].pc = "idle"
            /\ req'[w].op \in {"create", "list"}
            /\ req'[w].x_api_key = <<>>)
             => /\ req'[w].pc = "teardown"
                /\ req'[w].response.status = 401
                /\ rows' = rows
                /\ nextId' = nextId
        /\ req[w].response.status = 401
             => /\ req'[w].pc = "idle"
                /\ rows' = rows
                /\ nextId' = nextId
      ]_vars

\* a create without the header answered 401 while the table holds a row
C7_Witness ==
    \E w \in Workers :
        /\ Answered(w, "create", 401)
        /\ req[w].x_api_key = <<>>
        /\ rows # {}

(* C8: whenever a create ends with the 500 "Failed to save file" error, the
   table holds no row from that request. *)
C8_NoPartialStateOnFailure ==
    \A w \in Workers :
        (/\ Answered(w, "create", 500)
         /\ req[w].response.message = "Failed to save file")
          => \A t \in req[w].tracked_file : \A r \in rows : r.id # t.id

(* C9: snapshots are immutable and never deleted: every step keeps every
   stored row as it is (id, fileName, filePath, key, content, timestamp and
   created_at), and no two stored rows ever share an id. *)
C9_ImmutableSnapshots ==
    /\ [](\A r1, r2 \in rows : r1.id = r2.id => r1 = r2)
    /\ [][\A r \in rows : r \in rows']_vars

\* two rows are stored and a health check has just been answered
C9_Witness ==
    /\ Cardinality(rows) = 2
    /\ \E w \in Workers : Answered(w, "health", 200)

(* C10: nothing at the data layer stops a create that found no duplicate:
   once its commit has run, its row is stored, whatever rows of the same file
   other requests stored in between; so two overlapping creates of one file
   within 5 seconds of each other both insert and are both answered 201. *)
C10_RaceBothInsert ==
    \A w \in Workers :
        (req[w].pc = "refresh" \/ Answered(w, "create", 201))
          => /\ req[w].tracked_file # {}
             /\ req[w].tracked_file \subseteq rows
             /\ req[w].existing = {}

\* both requests are answered 201 and the table holds their two rows, same
\* file, timestamps within 5 seconds of each other
C10_Witness ==
    /\ \A w \in Workers : Answered(w, "create", 201)
    /\ \E r1, r2 \in rows :
          /\ r1.id # r2.id
          /\ req[1].response.data = <<FileResponse(r1)>>
          /\ req[2].response.data = <<FileResponse(r2)>>
          /\ r1.fileName = r2.fileName /\ r1.filePath = r2.filePath
          /\ r1.timestamp - r2.timestamp <= 5
          /\ r2.timestamp - r1.timestamp <= 5

----------------------------------------------------------------------------
(* C11: every stored content is in compressed form (no two adjacent
   whitespace characters, none at either end), and the row a create inserts
   and the answer it returns carry the single-spaced words of the raw content
   the request submitted *)

\* s has no two adjacent whitespace characters and none at either end
CompressedForm(s) ==
    /\ \A i \in 1..(Len(s) - 1) :
          ~(s[i] \in Whitespace /\ s[i + 1] \in Whitespace)
    /\ s # <<>> => (s[1] \notin Whitespace /\ s[Len(s)] \notin Whitespace)

\* the positions of s that survive: every non-whitespace character, and the
\* first character of a whitespace run that has a word on both sides
KeptPositions(s) ==
    {i \in 1..Len(s) :
        \/ s[i] \notin Whitespace
        \/ /\ i > 1
           /\ s[i - 1] \notin Whitespace
           /\ \E j \in (i + 1)..Len(s) : s[j] \notin Whitespace}

\* the words of s in order, one space between neighbours
SingleSpaced(s) ==
    LET kept == KeptPositions(s)
        nth(k) == CHOOSE i \in kept : Cardinality({j \in kept : j < i}) = k - 1
    IN  [k \in 1..Cardinality(kept) |->
            IF s[nth(k)] \in Whitespace THEN " " ELSE s[nth(k)]]

C11_StoredContentCompressed ==
    /\ [](\A r \in rows : CompressedForm(r.fullContent))
    /\ [][\A w \in Workers :
            /\ (CommitStep(w) /\ NoFault(w)) =>
                  \E r \in rows' : \E p \in req[w].payload :
                     /\ rows' \ rows = {r}
                     /\ r.fullContent = SingleSpaced(p.fullContent)
            /\ (RefreshStep(w) /\ NoFault(w)) =>
                  \E p \in req[w].payload :
                     /\ Len(req'[w].response.data) = 1
                     /\ req'[w].response.data[1].fullContent =
                           SingleSpaced(p.fullContent)
         ]_vars

\* the request that submitted "x   y\n\nz" is answered 201 with "x y z", and
\* that is what the table holds
C11_Witness ==
    \E w \in Workers : \E r \in rows :
        /\ Answered(w, "create", 201)
        /\ req[w].payload # {}
        /\ \A p \in req[w].payload : p.fullContent = RawXYZ
        /\ req[w].response.data = <<FileResponse(r)>>
        /\ r.fullContent = <<"x", " ", "y", " ", "z">>

----------------------------------------------------------------------------
(* C12: compress_content is defined on every text; its result is the words of
   the text joined by single spaces (each whitespace run between two words
   becomes one space), has no whitespace at either end, is empty for a text of
   only whitespace, and compressing it again changes nothing *)

C12_CompressIdempotent ==
    /\ call.pc \in {"once", "twice"} =>
          /\ call.once = SingleSpaced(call.raw)
          /\ CompressedForm(call.once)
          /\ \A i \in 1..Len(call.once) :
                call.once[i] \in Whitespace => call.once[i] = " "
          /\ (\A i \in 1..Len(call.raw) : call.raw[i] \in Whitespace) =>
                call.once = <<>>
    /\ call.pc = "twice" => call.twice = call.once

\* a text with a run of two spaces inside and a newline at its end has been
\* compressed twice
C12_Witness ==
    /\ call.pc = "twice"
    /\ call.raw = <<"x", " ", " ", "y", "\n">>
    /\ call.once = <<"x", " ", "y">>
    /\ call.twice = <<"x", " ", "y">>

----------------------------------------------------------------------------
(* C13: the timestamp a create compares and stores is the client's timestamp
   normalized: it carries no offset and reads the UTC instant the client's
   timestamp denotes (an offset-free timestamp is kept as it is, normalizing
   twice is normalizing once); so a create whose UTC instant is within 5
   seconds of a stored snapshot of the same file is answered with a stored
   snapshot, whatever offsets the two timestamps were written with *)

\* the UTC instant a client timestamp denotes, read off the way it was written
UtcInstant(dt) ==
    CHOOSE t \in 0..MaxTs :
        \/ dt = Naive(t)
        \/ \E o \in {3600, 7200, 0 - 18000} : dt = Aware(t, o)

C13_TimestampsNormalized ==
    [][\A w \in Workers : \A p \in req'[w].payload :
          LET normalized == normalize_timestamp(p.timestamp)
              same == {r \in rows : /\ r.fileName = p.fileName
                                    /\ r.filePath = p.filePath}
          IN  /\ (QueryStep(w) /\ NoFault(w)) =>
                    /\ normalized.utcoffset = <<>>
                    /\ ColumnValue(normalized) = UtcInstant(p.timestamp)
                    /\ req'[w].normalized_ts = UtcInstant(p.timestamp)
                    /\ p.timestamp.utcoffset = <<>> =>
                          normalized = p.timestamp
                    /\ normalize_timestamp(normalized) = normalized
                    /\ (\E r \in same :
                          /\ r.timestamp - UtcInstant(p.timestamp) <= 5
                          /\ UtcInstant(p.timestamp) - r.timestamp <= 5)
                       <=> req'[w].response.status = 200
                    /\ rows' = rows
              /\ (CommitStep(w) /\ NoFault(w)) =>
                    \E r \in rows' :
                       /\ rows' \ rows = {r}
                       /\ r.timestamp = UtcInstant(p.timestamp)
      ]_vars

\* worker 1 stored a snapshot written with one offset; worker 2, with the same
\* file written with another offset, wall-clock readings hours apart and UTC
\* instants 5 seconds apart, is answered 200 with worker 1's snapshot
C13_Witness ==
    \E r \in rows : \E p1 \in req[1].payload : \E p2 \in req[2].payload :
        /\ Answered(1, "create", 201)
        /\ Answered(2, "create", 200)
        /\ req[1].response.data = <<FileResponse(r)>>
        /\ req[2].response.data = <<FileResponse(r)>>
        /\ rows = {r}
        /\ p1.timestamp.utcoffset # <<>>
        /\ p2.timestamp.utcoffset # <<>>
        /\ p1.timestamp.utcoffset # p2.timestamp.utcoffset
        /\ p1.timestamp.local - p2.timestamp.local > 3600
        /\ r.timestamp = 0
        /\ req[2].normalized_ts = 5

----------------------------------------------------------------------------
(* C14: schema initialization at startup ends: it makes at most 10 attempts;
   a successful attempt ends it with the schema created and no attempt
   follows; a failed attempt with the store unavailable, before the 10th, is
   followed by a wait of 3 seconds and the next attempt; a failed 10th
   attempt aborts startup with no wait and no 11th attempt; and startup always
   reaches exactly one of the two ends, which it never leaves *)

SchemaCreated == startup.phase \in {"created", "running"}
StartupAborted == startup.phase = "aborted"

C14_StartupTerminates ==
    /\ [](startup.phase = "create_all" => startup.attempt \in 1..10)
    /\ [](startup.phase = "sleep" => startup.attempt \in 1..9)
    /\ [](startup.phase \in {"create_all", "sleep", "aborted"} =>
            startup.slept = 3 * (startup.attempt - 1))
    /\ [][/\ SchemaCreated => SchemaCreated'
          /\ StartupAborted => startup' = startup
          /\ (startup.phase = "create_all" /\ startup' # startup) =>
                \/ SchemaCreated'
                \/ /\ startup'.phase = "sleep"
                   /\ startup.attempt < 10
                   /\ startup'.attempt = startup.attempt
                   /\ startup'.slept = startup.slept
                \/ /\ StartupAborted'
                   /\ startup'.attempt = startup.attempt
                   /\ startup'.slept = startup.slept
          /\ (startup.phase = "create_all" /\ startup.attempt = 10
                /\ startup' # startup) =>
                (SchemaCreated' \/ StartupAborted')
          /\ (startup.phase = "sleep" /\ startup' # startup) =>
                /\ startup'.phase = "create_all"
                /\ startup'.attempt = startup.attempt + 1
                /\ startup'.slept = startup.slept + 3
          /\ ~SchemaCreated => req' = req
         ]_vars
    /\ <>(SchemaCreated \/ StartupAborted)

\* startup has aborted at the 10th attempt, after 9 waits of 3 seconds
C14_Witness ==
    /\ startup.phase = "aborted"
    /\ startup.attempt = 10
    /\ startup.slept = 27

----------------------------------------------------------------------------
(* C15: a store fault during create or list is answered with a server error
   that carries the description of the underlying cause, and the operation is
   not run again *)

C15_FaultCarriesCause ==
    \A w \in Workers :
        (req[w].pc = "teardown" /\ req[w].response.status = 500) =>
            /\ req[w].op \in {"create", "list"}
            /\ req[w].response.cause = StoreFault

----------------------------------------------------------------------------
(* C16: a create or list request holds a session of its own, open from its
   arrival until the step that completes it; that step closes this session,
   whatever the answer (201, 200, 401, 500), and is the only step that closes
   it; no two requests in flight hold the same session, no request touches
   another request's session, and no worker at rest holds an open session *)

\* worker w serves a create or list request
InFlight(w) == req[w].pc # "idle" /\ req[w].op \in {"create", "list"}

\* the step in which the request of worker w completes
Completes(w) == req[w].pc = "teardown" /\ req'[w].pc = "idle"

C16_SessionPerRequest ==
    /\ [](\A w \in Workers :
            /\ InFlight(w) => (req[w].session = "open" /\ req[w].db # 0)
            /\ ~InFlight(w) => (req[w].session # "open" /\ req[w].db = 0)
            /\ \A v \in Workers \ {w} :
                  (InFlight(w) /\ InFlight(v)) => req[w].db # req[v].db)
    /\ [][\A w \in Workers :
            /\ (InFlight(w) /\ Completes(w)) =>
                  /\ req[w].response.status \in {200, 201, 401, 500}
                  /\ req[w].session = "open"
                  /\ req'[w].session = "closed"
            /\ (InFlight(w) /\ ~Completes(w)) =>
                  /\ req'[w].session = "open"
                  /\ req'[w].db = req[w].db
            /\ req'[w] # req[w] =>
                  \A v \in Workers \ {w} : req'[v] = req[v]
         ]_vars

\* worker 1 has completed a request and its session is closed, while worker 2
\* holds an open session of its own at the end of a request that met a fault
C16_Witness ==
    /\ req[1].pc = "idle"
    /\ req[1].session = "closed"
    /\ Answered(2, "create", 500)
    /\ req[2].session = "open"
    /\ req[2].db # 0

----------------------------------------------------------------------------
(* C17: when create calls run one after the other, any two distinct stored
   snapshots of the same file name and path have timestamps more than 5
   seconds apart; a suppressed call leaves the store as it was, so whether a
   call is suppressed depends on the stored snapshots only: with the snapshot
   of second 0 stored, a call for second 4 is suppressed and a later call for
   second 8 inserts *)

C17_SequentialSpacing ==
    /\ [](\A r1, r2 \in rows :
            (/\ r1 # r2
             /\ r1.fileName = r2.fileName
             /\ r1.filePath = r2.filePath) =>
                (r1.timestamp - r2.timestamp > 5 \/ r2.timestamp - r1.timestamp > 5))
    /\ [][\A w \in {1} :
            /\ (QueryStep(w) /\ req'[w].response.status = 200) =>
                  (rows' = rows /\ nextId' = nextId)
            /\ (QueryStep(w) /\ NoFault(w)) =>
                  LET q == req'[w]
                      same == {r \in rows : /\ r.fileName = q.fileName
                                            /\ r.filePath = q.filePath}
                  IN  ({r.timestamp : r \in same} = {0}) =>
                         /\ q.normalized_ts = 4 => q.response.status = 200
                         /\ q.normalized_ts = 8 => q.pc = "commit"
            /\ (CommitStep(w) /\ NoFault(w)) =>
                  \E r \in rows' :
                     /\ rows' = rows \cup {r}
                     /\ r \notin rows
                     /\ r.timestamp = req[w].normalized_ts
         ]_vars

\* the snapshots of seconds 0 and 8 of one file are stored, under the ids 1
\* and 2, and the call for second 8 has just been answered 201
C17_Witness ==
    \E r1, r2 \in rows :
        /\ rows = {r1, r2}
        /\ r1.id = 1 /\ r1.timestamp = 0
        /\ r2.id = 2 /\ r2.timestamp = 8
        /\ r1.fileName = r2.fileName /\ r1.filePath = r2.filePath
        /\ Answered(1, "create", 201)
        /\ req[1].response.data = <<FileResponse(r2)>>

----------------------------------------------------------------------------
(* C18: the duplicate lookup ignores the key: a create whose file name, path
   and timestamp fall in the window of snapshots stored under other keys only
   is answered 200 with the latest of them (its id and content), inserts
   nothing, and leaves the caller's own listing as it was; a listing holds the
   caller's rows only, so the snapshot this create returned is not in it *)

C18_DuplicateIgnoresKey ==
    [][\A w \in Workers :
          LET q == req'[w]
              api_key == HeaderValue(req[w].x_api_key)
              hits == InWindow(rows, q)
          IN  /\ (/\ QueryStep(w) /\ NoFault(w)
                  /\ hits # {}
                  /\ \A r \in hits : r.key # api_key) =>
                    /\ q.response.status = 200
                    /\ \E r \in hits :
                          /\ \A h \in hits : h.timestamp <= r.timestamp
                          /\ q.response.data = <<FileResponse(r)>>
                          /\ q.response.data[1].id = r.id
                          /\ q.response.data[1].fullContent = r.fullContent
                    /\ rows' = rows
                    /\ KeyFilter(rows', api_key) = KeyFilter(rows, api_key)
              /\ (/\ req[w].pc = "teardown" /\ req[w].op = "create"
                  /\ req[w].response.status = 200) => rows' = rows
              /\ (req[w].pc = "list" /\ q.response.status = 200) =>
                    /\ {q.response.data[i] : i \in 1..Len(q.response.data)} =
                          {FileResponse(r) : r \in {x \in rows : x.key = api_key}}
                    /\ rows' = rows
      ]_vars

\* a create made with key K2 is answered 200 with a snapshot stored under K1,
\* whose content is not the one the request submitted, and no snapshot is
\* stored under K2
C18_Witness ==
    \E w \in Workers : \E r \in rows :
        /\ Answered(w, "create", 200)
        /\ req[w].x_api_key = <<"K2">>
        /\ r.key = "K1"
        /\ req[w].response.data = <<FileResponse(r)>>
        /\ req[w].response.data[1].fullContent # req[w].compressed_content
        /\ \A x \in rows : x.key # "K2"
====
